---- MODULE Spec2Model ----
(***************************************************************************)
(* Model of the rtk release tools:                                         *)
(*   tools/luaknit.py   - the Lua bundler (process / main)                 *)
(*   tools/mkreapack.py - the ReaPack manifest builder (versioning)        *)
(*                                                                         *)
(* Strings (paths, module names, symbols, versions, source text) are       *)
(* sequences of one-character strings, so that replace / join / dirname /  *)
(* split / regex substitution are computed as the code computes them.      *)
(***************************************************************************)
EXTENDS Integers, Sequences, FiniteSets, TLC

VARIABLES
    fs,             \* the disk: canonical path -> normalized lines of the file
    args,           \* args.files of luaknit
    pc,             \* position of the bundler's control flow
    aliases,        \* luaknit.aliases (insertion-ordered dict)
    modules,        \* luaknit.modules (dict: module name -> symbol)
    return_symbol,  \* main's return_symbol
    seen,           \* main's seen set of filenames
    out,            \* main's out list of fragments
    stack,          \* active process() frames, innermost last
    call,           \* arguments of the process() call being entered
    entry,          \* index of main's loop over aliases.items()
    written,        \* what this run wrote to the output destination
    run,            \* 1 for the first run, 2 for the re-run on the same inputs
    prevWritten,    \* what the first run wrote
    opened,         \* filenames handed to get_stripped_source in this run
    nz,             \* state of get_stripped_source (the Normalizer)
    vr              \* state of gen_reapack_version

vars == <<fs, args, pc, aliases, modules, return_symbol, seen, out, stack,
          call, entry, written, run, prevWritten, opened, nz, vr>>

bundlerVars == <<fs, args, pc, aliases, modules, return_symbol, seen, out,
                 stack, call, entry, written, run, prevWritten, opened>>

----------------------------------------------------------------------------
(* Generic string helpers (Python str methods)                             *)

None == <<>>

\* a source line after get_stripped_source, by the branch of process it takes:
\*   kind "static"  : matches the static import regex; assigned says whether
\*                    m.group(1) holds '=', mod is m.group(2)
\*   kind "dynamic" : matches the dynamic import regex
\*   kind "plain"   : matches neither
\* id stands for the rest of the text, endp says whether the line ends in one
\* of the characters print_conditional_newline looks for.
Line(kind, assigned, mod, id, endp) ==
    [kind |-> kind, assigned |-> assigned, mod |-> mod, id |-> id, endp |-> endp]

\* last=None
NoLast == Line("none", FALSE, <<>>, 0, TRUE)

StartsWith(s, pat) ==
    /\ Len(pat) <= Len(s)
    /\ SubSeq(s, 1, Len(pat)) = pat

Drop(s, k) == SubSeq(s, k + 1, Len(s))

\* str.replace(pat, rep): leftmost, non-overlapping occurrences
RECURSIVE ReplaceAll(_, _, _)
ReplaceAll(s, pat, rep) ==
    IF s = <<>> THEN <<>>
    ELSE IF StartsWith(s, pat)
         THEN rep \o ReplaceAll(Drop(s, Len(pat)), pat, rep)
         ELSE <<s[1]>> \o ReplaceAll(Tail(s), pat, rep)

Contains(s, c) == \E i \in 1..Len(s) : s[i] = c

\* index of the last occurrence of c in s, 0 when there is none (str.rfind + 1)
LastIndexOf(s, c) ==
    IF Contains(s, c)
    THEN CHOOSE i \in 1..Len(s) : s[i] = c /\ \A j \in (i+1)..Len(s) : s[j] # c
    ELSE 0

FirstIndexOf(s, c) ==
    IF Contains(s, c)
    THEN CHOOSE i \in 1..Len(s) : s[i] = c /\ \A j \in 1..(i-1) : s[j] # c
    ELSE 0

\* str.lstrip(c) / str.rstrip(c)
RECURSIVE LStrip(_, _)
LStrip(s, c) == IF s # <<>> /\ s[1] = c THEN LStrip(Tail(s), c) ELSE s

RECURSIVE RStrip(_, _)
RStrip(s, c) ==
    IF s # <<>> /\ s[Len(s)] = c THEN RStrip(SubSeq(s, 1, Len(s) - 1), c) ELSE s

DotLua == <<".", "l", "u", "a">>
SlashInitLua == <<"/", "i", "n", "i", "t", ".", "l", "u", "a">>
InitLua == <<"i", "n", "i", "t", ".", "l", "u", "a">>
ModPrefix == <<"_", "_", "m", "o", "d", "_">>

----------------------------------------------------------------------------
(* os.path on a POSIX disk holding the regular files DOMAIN fs             *)

\* os.path.join(a, b)
Join(a, b) ==
    IF b # <<>> /\ b[1] = "/" THEN b
    ELSE IF a = <<>> \/ a[Len(a)] = "/" THEN a \o b
    ELSE a \o <<"/">> \o b

\* os.path.dirname(p)
Dirname(p) ==
    LET head == SubSeq(p, 1, LastIndexOf(p, "/"))
    IN  IF RStrip(head, "/") = <<>> THEN head ELSE RStrip(head, "/")

\* os.path.splitext(p)[0]
SplitextRoot(p) ==
    LET sep == LastIndexOf(p, "/")
        dot == LastIndexOf(p, ".")
    IN  IF dot > sep /\ \E k \in (sep+1)..(dot-1) : p[k] # "."
        THEN SubSeq(p, 1, dot - 1)
        ELSE p

\* The kernel's path walk: repeated and trailing separators name no component.
RECURSIVE Canon(_)
Canon(p) ==
    IF p = <<>> THEN <<>>
    ELSE IF p[1] = "/" THEN Canon(Tail(p))
    ELSE LET k == FirstIndexOf(p, "/")
         IN  IF k = 0 THEN p
             ELSE LET rest == Canon(Drop(p, k))
                  IN  IF rest = <<>> THEN SubSeq(p, 1, k - 1)
                      ELSE SubSeq(p, 1, k - 1) \o <<"/">> \o rest

Relative(p) == p # <<>> /\ p[1] # "/"

\* os.path.isfile / isdir / exists against the files of disk
IsFile(disk, p) ==
    /\ Relative(p)
    /\ p[Len(p)] # "/"
    /\ Canon(p) \in DOMAIN disk

IsDir(disk, p) ==
    /\ Relative(p)
    /\ \E f \in DOMAIN disk : StartsWith(f, Canon(p) \o <<"/">>)

Exists(disk, p) == IsFile(disk, p) \/ IsDir(disk, p)

----------------------------------------------------------------------------
(* luaknit.py                                                              *)

Letters == {"a", "b", "c", "d", "e", "f", "g", "h", "i", "j", "k", "l", "m",
            "n", "o", "p", "q", "r", "s", "t", "u", "v", "w", "x", "y", "z",
            "A", "B", "C", "D", "E", "F", "G", "H", "I", "J", "K", "L", "M",
            "N", "O", "P", "Q", "R", "S", "T", "U", "V", "W", "X", "Y", "Z"}
Digits == {"0", "1", "2", "3", "4", "5", "6", "7", "8", "9"}

\* re.sub(r'[^a-zA-Z\d_]', '_', name)
Identifier(name) ==
    [i \in 1..Len(name) |->
        IF name[i] \in Letters \cup Digits \cup {"_"} THEN name[i] ELSE "_"]

get_global_module_name(name) == ModPrefix \o Identifier(name)

\* dict helpers: aliases is an insertion-ordered dict kept as a sequence
AliasPut(d, k, path, module) ==
    IF \E i \in 1..Len(d) : d[i].symbol = k
    THEN [i \in 1..Len(d) |->
            IF d[i].symbol = k
            THEN [symbol |-> k, path |-> path, module |-> module]
            ELSE d[i]]
    ELSE Append(d, [symbol |-> k, path |-> path, module |-> module])

\* modules.get(name): None when absent
ModulesGet(mods, name) == IF name \in DOMAIN mods THEN mods[name] ELSE None

ModulesPut(mods, name, symbol) == (name :> symbol) @@ mods

\* main, the loop over args.files: one iteration
MainArg(st, f) ==
    LET module == ReplaceAll(ReplaceAll(f, DotLua, <<>>), <<"/">>, <<".">>)
        k      == FirstIndexOf(f, "=")
    IN  IF k > 0
        THEN [aliases |-> AliasPut(st.aliases, SubSeq(f, 1, k - 1),
                                   Drop(f, k), module),
              return_symbol |-> SubSeq(f, 1, k - 1)]
        ELSE [aliases |-> AliasPut(st.aliases, get_global_module_name(module),
                                   f, module),
              return_symbol |-> st.return_symbol]

RECURSIVE MainArgs(_, _)
MainArgs(st, fl) ==
    IF fl = <<>> THEN st ELSE MainArgs(MainArg(st, fl[1]), Tail(fl))

\* a fragment handed to out(): an opening or closing wrapper, a newline, a
\* source line (as left or as rewritten), the header comment, the trailer
Frag(t, sym, id) == [t |-> t, sym |-> sym, id |-> id]

\* print_conditional_newline(last, out): the fragments it appends
print_conditional_newline(last) ==
    IF last.kind # "none" /\ ~last.endp THEN <<Frag("nl", <<>>, 0)>> ELSE <<>>

\* process, the loop over aliases.items(): the bases one alias contributes
AliasBases(disk, a, submodule) ==
    IF submodule = a.symbol \/ StartsWith(submodule, a.symbol \o <<".">>)
    THEN LET alias_dir == IF IsFile(disk, a.path) THEN Dirname(a.path)
                          ELSE a.path
             remaining == LStrip(Drop(submodule, Len(a.symbol)), ".")
             base      == Join(alias_dir, ReplaceAll(remaining, <<".">>, <<"/">>))
         IN  (IF base # <<>> THEN <<base>> ELSE <<>>)
             \o (IF IsFile(disk, a.path) THEN <<SplitextRoot(a.path)>>
                 ELSE <<>>)
    ELSE <<>>

RECURSIVE AllAliasBases(_, _, _)
AllAliasBases(disk, al, submodule) ==
    IF al = <<>> THEN <<>>
    ELSE AliasBases(disk, al[1], submodule)
         \o AllAliasBases(disk, Tail(al), submodule)

search_bases(disk, al, submodule) ==
    <<ReplaceAll(submodule, <<".">>, <<"/">>)>>
    \o AllAliasBases(disk, al, submodule)

Suffixes == <<DotLua, SlashInitLua>>

\* Probes with the two suffixes in the other order
RECURSIVE Probes_InitFirst(_)
Probes_InitFirst(bases) ==
    IF bases = <<>> THEN <<>>
    ELSE <<[base |-> bases[1], suffix |-> Suffixes[2]],
           [base |-> bases[1], suffix |-> Suffixes[1]]>>
         \o Probes_InitFirst(Tail(bases))

\* the probes in the order the two nested loops make them
RECURSIVE Probes(_)
Probes(bases) ==
    IF bases = <<>> THEN <<>>
    ELSE <<[base |-> bases[1], suffix |-> Suffixes[1]],
           [base |-> bases[1], suffix |-> Suffixes[2]]>> \o Probes(Tail(bases))

NoHit == [base |-> <<>>, suffix |-> <<>>]

\* FirstHit looking at the direct mapping only, not at what the aliases give
FirstHit_DirectOnly(disk, probes) ==
    IF probes # <<>> /\ Exists(disk, probes[1].base \o probes[1].suffix)
    THEN probes[1]
    ELSE IF Len(probes) >= 2 /\ Exists(disk, probes[2].base \o probes[2].suffix)
    THEN probes[2]
    ELSE NoHit

\* the first probe that exists, NoHit when the for/else branch is taken
RECURSIVE FirstHit(_, _)
FirstHit(disk, probes) ==
    IF probes = <<>> THEN NoHit
    ELSE IF Exists(disk, probes[1].base \o probes[1].suffix) THEN probes[1]
    ELSE FirstHit(disk, Tail(probes))

SubSymbol(submodule, suffix) ==
    get_global_module_name(submodule)
    \o ReplaceAll(ReplaceAll(suffix, DotLua, <<>>), <<"/">>, <<"_">>)


\* the characters of print_conditional_newline's regex that a symbol can end in
PunctChars == {"(", ")", "{", "}", ".", "'", "\"", "=", "<", ">", "+", "-",
               "*", "/", ",", "|", "&", "%"}

\* the static import line as rewritten by re.sub(' *(= *require...)', '=' + subsymbol)
Rewritten(line, subsymbol) ==
    Line("rewritten", TRUE, subsymbol, line.id,
         subsymbol # <<>> /\ subsymbol[Len(subsymbol)] \in PunctChars)

\* the dynamic import line as rewritten to '=load("return __mod_" .. v:gsub(...))()'
DynRewritten(line) == Line("load", TRUE, <<>>, line.id, TRUE)

Frame(filename, module, symbol, n, last, sub) ==
    [filename |-> filename, module |-> module, symbol |-> symbol,
     n |-> n, last |-> last, sub |-> sub]

NoCall == [filename |-> <<>>, module |-> <<>>, symbol |-> <<>>, last |-> NoLast]

Top == stack[Len(stack)]
Pop == SubSeq(stack, 1, Len(stack) - 1)
SetTop(fr) == [stack EXCEPT ![Len(stack)] = fr]

\* the normalized lines get_stripped_source yields for filename
LinesOf(filename) == fs[Canon(filename)]

\* bound on the depth of the recursion (never reached: a frame is only
\* entered for a filename that is not in seen)
MaxDepth == 8

----------------------------------------------------------------------------
(* In the actions, \E x \in {e} : ... names the value of e, as a local      *)
(* variable of the code does.                                              *)

(* main, lines 171-184: the header comment, the alias table, the seen set  *)
MainParse ==
    /\ pc = "main_args"
    /\ \E st \in {MainArgs([aliases |-> <<>>, return_symbol |-> None], args)} :
           /\ aliases' = st.aliases
           /\ return_symbol' = st.return_symbol
    /\ out' = <<Frag("comment", <<>>, 0)>>
    /\ seen' = {}
    /\ entry' = 1
    /\ pc' = "main_loop"
    /\ UNCHANGED <<fs, args, modules, stack, call, written, run, prevWritten,
                   opened, nz, vr>>

(* main, lines 185-186: the next process(f, module, symbol, seen, out.append) *)
MainEntry ==
    /\ pc = "main_loop"
    /\ entry <= Len(aliases)
    /\ call' = [filename |-> aliases[entry].path,
                module   |-> aliases[entry].module,
                symbol   |-> aliases[entry].symbol,
                last     |-> NoLast]
    /\ pc' = "enter"
    /\ UNCHANGED <<fs, args, aliases, modules, return_symbol, seen, out, stack,
                   entry, written, run, prevWritten, opened, nz, vr>>

\* control returns from process() with value ret, the frames left being stk
ReturnTo(stk, ret) ==
    IF stk = <<>>
    THEN /\ stack' = stk
         /\ entry' = entry + 1
         /\ pc' = "main_loop"
    ELSE /\ stack' = [stk EXCEPT ![Len(stk)].last = ret]
         /\ entry' = entry
         /\ pc' = "after_call"

\* ProcessEnter without the seen check
ProcessEnter_NoSeenCheck ==
    /\ pc = "enter"
    /\ \E filename \in {IF IsDir(fs, call.filename)
                         THEN Join(call.filename, InitLua)
                         ELSE call.filename} :
           IF ~IsFile(fs, filename)
           THEN /\ pc' = "crash"
                /\ UNCHANGED <<seen, modules, out, opened, stack, entry>>
           ELSE /\ Len(stack) < MaxDepth
                /\ seen' = seen \cup {filename}
                /\ modules' = ModulesPut(modules, call.module, call.symbol)
                /\ out' = out \o print_conditional_newline(call.last)
                              \o <<Frag("open", call.symbol, 0)>>
                /\ opened' = Append(opened, filename)
                /\ stack' = Append(stack, Frame(filename, call.module,
                                                call.symbol, 1, NoLast, None))
                /\ entry' = entry
                /\ pc' = "line"
    /\ call' = NoCall
    /\ UNCHANGED <<fs, args, aliases, return_symbol, written, run, prevWritten,
                   nz, vr>>

(* process, lines 82-90: directory mapping, the seen check, the opening wrapper *)
ProcessEnter ==
    /\ pc = "enter"
    /\ \E filename \in {IF IsDir(fs, call.filename)
                         THEN Join(call.filename, InitLua)
                         ELSE call.filename} :
           IF filename \in seen
           THEN /\ ReturnTo(stack, NoLast)
                /\ UNCHANGED <<seen, modules, out, opened>>
           ELSE IF ~IsFile(fs, filename)
           THEN \* open(fname) raises: uncaught exception
                /\ pc' = "crash"
                /\ UNCHANGED <<seen, modules, out, opened, stack, entry>>
           ELSE /\ Len(stack) < MaxDepth
                /\ seen' = seen \cup {filename}
                /\ modules' = ModulesPut(modules, call.module, call.symbol)
                /\ out' = out \o print_conditional_newline(call.last)
                              \o <<Frag("open", call.symbol, 0)>>
                /\ opened' = Append(opened, filename)
                /\ stack' = Append(stack, Frame(filename, call.module,
                                                call.symbol, 1, NoLast, None))
                /\ entry' = entry
                /\ pc' = "line"
    /\ call' = NoCall
    /\ UNCHANGED <<fs, args, aliases, return_symbol, written, run, prevWritten,
                   nz, vr>>

\* process, lines 138-154 for a static import line whose symbol is subsymbol
FinishStatic(fr, line, subsymbol) ==
    IF ~line.assigned
    THEN /\ out' = out
         /\ stack' = SetTop([fr EXCEPT !.n = fr.n + 1, !.sub = None])
    ELSE /\ out' = out \o print_conditional_newline(fr.last)
                       \o <<Frag("assign", subsymbol, line.id)>>
         /\ stack' = SetTop([fr EXCEPT !.n = fr.n + 1, !.sub = None,
                                       !.last = Rewritten(line, subsymbol)])

(* process, lines 91-154: one line of the file, up to the recursive call *)
ProcessLine ==
    /\ pc = "line"
    /\ Top.n <= Len(LinesOf(Top.filename))
    /\ \E fr \in {Top} : \E line \in {LinesOf(fr.filename)[fr.n]} :
           IF line.kind = "static"
           THEN \E subsymbol \in {ModulesGet(modules, line.mod)} :
                IF subsymbol # None
                THEN /\ FinishStatic(fr, line, subsymbol)
                     /\ pc' = "line"
                     /\ call' = call
                ELSE \E bases \in {search_bases(fs, aliases, line.mod)} :
                     \E probes \in {Probes(bases)} :
                     \E hit \in {FirstHit(fs, probes)} :
                     IF hit = NoHit
                     THEN \* log.error(...); sys.exit(1)
                          /\ pc' = "exit1"
                          /\ UNCHANGED <<out, stack, call>>
                     ELSE /\ call' = [filename |-> hit.base \o hit.suffix,
                                      module   |-> line.mod,
                                      symbol   |-> SubSymbol(line.mod, hit.suffix),
                                      last     |-> fr.last]
                          /\ stack' = SetTop([fr EXCEPT
                                         !.sub = SubSymbol(line.mod, hit.suffix)])
                          /\ pc' = "enter"
                          /\ out' = out
           ELSE \E emitted \in {IF line.kind = "dynamic" THEN DynRewritten(line)
                                 ELSE line} :
                    /\ out' = out \o print_conditional_newline(fr.last)
                                  \o <<Frag(emitted.kind, <<>>, line.id)>>
                    /\ stack' = SetTop([fr EXCEPT !.n = fr.n + 1,
                                                  !.last = emitted])
                    /\ pc' = "line"
                    /\ call' = call
    /\ UNCHANGED <<fs, args, aliases, modules, return_symbol, seen, entry,
                   written, run, prevWritten, opened, nz, vr>>

(* process, lines 129-154: the recursive call has returned into last *)
ProcessAfterCall ==
    /\ pc = "after_call"
    /\ \E fr \in {Top} : FinishStatic(fr, LinesOf(fr.filename)[fr.n], fr.sub)
    /\ pc' = "line"
    /\ UNCHANGED <<fs, args, aliases, modules, return_symbol, seen, call, entry,
                   written, run, prevWritten, opened, nz, vr>>

\* ProcessReturn emitting the closing wrapper of the block of an entry file
\* only, not of a required module
ProcessReturn_NoNestedClose ==
    /\ pc = "line"
    /\ Top.n > Len(LinesOf(Top.filename))
    /\ out' = out \o print_conditional_newline(Top.last)
                  \o (IF Len(stack) = 1 THEN <<Frag("close", <<>>, 0)>> ELSE <<>>)
    /\ ReturnTo(Pop, Top.last)
    /\ UNCHANGED <<fs, args, aliases, modules, return_symbol, seen, call,
                   written, run, prevWritten, opened, nz, vr>>

(* process, lines 155-157: the closing wrapper and the return of last *)
ProcessReturn ==
    /\ pc = "line"
    /\ Top.n > Len(LinesOf(Top.filename))
    /\ out' = out \o print_conditional_newline(Top.last)
                  \o <<Frag("close", <<>>, 0)>>
    /\ ReturnTo(Pop, Top.last)
    /\ UNCHANGED <<fs, args, aliases, modules, return_symbol, seen, call,
                   written, run, prevWritten, opened, nz, vr>>

NotWritten == <<>>

(* main, lines 188-192: the trailer and the single write of the output *)
MainFinish ==
    /\ pc = "main_loop"
    /\ entry > Len(aliases)
    /\ \E final \in {IF return_symbol # None
                      THEN Append(out, Frag("return", return_symbol, 0))
                      ELSE out} :
           /\ out' = final
           /\ written' = Append(final, Frag("nl", <<>>, 0))
    /\ pc' = "done"
    /\ UNCHANGED <<fs, args, aliases, modules, return_symbol, seen, stack, call,
                   entry, run, prevWritten, opened, nz, vr>>

(* a second invocation of the program on the same arguments and disk *)
Rerun ==
    /\ pc = "done"
    /\ run = 1
    /\ run' = 2
    /\ prevWritten' = written
    /\ written' = NotWritten
    /\ pc' = "main_args"
    /\ aliases' = <<>>
    /\ modules' = <<>>
    /\ return_symbol' = None
    /\ seen' = {}
    /\ out' = <<>>
    /\ stack' = <<>>
    /\ call' = NoCall
    /\ entry' = 0
    /\ opened' = <<>>
    /\ UNCHANGED <<fs, args, nz, vr>>

----------------------------------------------------------------------------
(* The inputs of a bundling run: a disk and an argument list               *)

Pa == <<"a">> \o DotLua
Pb == <<"b">> \o DotLua
Pc == <<"c">> \o DotLua
Pr == <<"r">> \o DotLua
Pd == <<"d">> \o DotLua
PdInit == <<"d">> \o SlashInitLua
PdB == <<"d", "/", "b">> \o DotLua
PdUInit == <<"d", "_", "i", "n", "i", "t">> \o DotLua

Ma == <<"a">>
Mb == <<"b">>
Mc == <<"c">>
Md == <<"d">>
Mr == <<"r">>
MrB == <<"r", ".", "b">>
MdUInit == <<"d", "_", "i", "n", "i", "t">>

ArgRD == <<"r", "=", "d">>
ArgRB == <<"r", "=">> \o Pb
ArgD == <<"d">>

\* the lines the entry file a.lua is made of
ALineSet ==
    { Line("static", TRUE, m, 1, FALSE) : m \in {Mb, Mc, Md, Mr, MrB, MdUInit} }
    \cup { Line("static", FALSE, Mb, 2, FALSE),
           Line("plain", FALSE, <<>>, 3, FALSE) }

\* bound on the number of lines of a.lua
MaxLines == 2

ALines == UNION { [1..k -> ALineSet] : k \in 0..MaxLines }

BLines == { <<>>,
            << Line("plain", FALSE, <<>>, 4, TRUE) >>,
            << Line("static", TRUE, Ma, 5, FALSE) >>,
            << Line("static", TRUE, Mb, 5, FALSE) >>,
            << Line("static", FALSE, Mc, 6, FALSE),
               Line("dynamic", TRUE, <<>>, 7, FALSE) >> }

CLines == { << Line("plain", FALSE, <<>>, 8, FALSE) >>,
            << Line("static", TRUE, Mb, 9, FALSE) >> }

OneLine(id) == << Line("plain", FALSE, <<>>, id, FALSE) >>

\* the files next to a.lua and b.lua, and the argument lists used with them;
\* every path of an argument list is on the disk, so that the open() of an
\* entry file never raises:
\*   a file and a same-named module directory resolved under two names,
\*   a module that is both a file and a directory, with c.lua missing,
\*   a directory alias before and after the entry file (with r.lua on disk),
\*   a file alias, and a directory given without a symbol
Scenarios ==
    { [files |-> {Pc, PdInit, PdUInit},   args |-> <<Pa>>],
      [files |-> {Pd, PdInit},            args |-> <<Pa>>],
      [files |-> {Pc, PdInit, PdB},       args |-> <<ArgRD, Pa>>],
      [files |-> {Pc, PdInit, Pr},        args |-> <<Pa, ArgRD>>],
      [files |-> {Pc, Pd},                args |-> <<ArgRB, Pa>>],
      [files |-> {Pc, PdInit},            args |-> <<ArgD, Pa, Pb>>] }

Disk(files, al, bl, cl) ==
    [f \in files \cup {Pa, Pb} |->
        IF f = Pa THEN al
        ELSE IF f = Pb THEN bl
        ELSE IF f = Pc THEN cl
        ELSE IF f = Pd THEN OneLine(10)
        ELSE IF f = PdInit THEN OneLine(11)
        ELSE IF f = PdB THEN OneLine(12)
        ELSE IF f = PdUInit THEN OneLine(13)
        ELSE OneLine(14)]

NoNz == [pc |-> "off"]
NoVr == [pc |-> "off"]

Init ==
    /\ \E sc \in Scenarios, al \in ALines, bl \in BLines, cl \in CLines :
          /\ fs = Disk(sc.files, al, bl, cl)
          /\ args = sc.args
    /\ pc = "main_args"
    /\ aliases = <<>>
    /\ modules = <<>>
    /\ return_symbol = None
    /\ seen = {}
    /\ out = <<>>
    /\ stack = <<>>
    /\ call = NoCall
    /\ entry = 0
    /\ written = NotWritten
    /\ run = 1
    /\ prevWritten = NotWritten
    /\ opened = <<>>
    /\ nz = NoNz
    /\ vr = NoVr

\* the runs checked for termination: a.lua requires b and r only, so that
\* the cycles through b.lua and the aliases of r are all there
FairALineSet ==
    { Line("static", TRUE, Mb, 1, FALSE), Line("static", TRUE, Mr, 1, FALSE) }

FairInit ==
    /\ Init
    /\ \A k \in 1..Len(fs[Pa]) : fs[Pa][k] \in FairALineSet

Next ==
    \/ MainParse
    \/ MainEntry
    \/ ProcessEnter
    \/ ProcessLine
    \/ ProcessAfterCall
    \/ ProcessReturn
    \/ MainFinish
    \/ Rerun

Spec == Init /\ [][Next]_vars

\* the interpreter runs the program to its end
FairSpec == FairInit /\ [][Next]_vars /\ WF_vars(Next)

----------------------------------------------------------------------------
(* luaknit.py: get_stripped_source, on the text of one file                *)

Min(S) == CHOOSE x \in S : \A y \in S : x <= y

\* the positions j >= from where s holds the two characters a b
PairsFrom(s, a, b, from) ==
    { j \in from..(Len(s) - 1) : s[j] = a /\ s[j + 1] = b }

\* length of the match of r'[^-]--\[\[.*?\]\](--)?' (re.S) at the start of s,
\* 0 when it does not match there
MultiCommentLen(s) ==
    IF /\ Len(s) >= 7
       /\ s[1] # "-"
       /\ SubSeq(s, 2, 5) = <<"-", "-", "[", "[">>
       /\ PairsFrom(s, "]", "]", 6) # {}
    THEN LET e == Min(PairsFrom(s, "]", "]", 6)) + 1
         IN  IF e + 2 <= Len(s) /\ s[e + 1] = "-" /\ s[e + 2] = "-"
             THEN e + 2 ELSE e
    ELSE 0

\* re.sub(pattern, '', s) for a pattern whose match length at the start of a
\* string is MatchLen: leftmost matches, scanning on after each
RECURSIVE StripMultiline(_)
StripMultiline(s) ==
    IF s = <<>> THEN <<>>
    ELSE IF MultiCommentLen(s) > 0
         THEN StripMultiline(Drop(s, MultiCommentLen(s)))
         ELSE <<s[1]>> \o StripMultiline(Tail(s))

MetaFields == { <<"V", "E", "R", "S", "I", "O", "N">>,
                <<"D", "E", "S", "C", "R", "I", "P", "T", "I", "O", "N">>,
                <<"U", "R", "L">>,
                <<"L", "I", "C", "E", "N", "S", "E">> }

\* number of leading spaces of s
RECURSIVE Spaces(_)
Spaces(s) == IF s # <<>> /\ s[1] = " " THEN 1 + Spaces(Tail(s)) ELSE 0

\* length of the match of (\[\[.*?\]\]|'[^']*'|"[^"]*") at the start of s
MetaValueLen(s) ==
    IF Len(s) >= 2 /\ s[1] = "[" /\ s[2] = "["
    THEN IF PairsFrom(s, "]", "]", 3) # {}
         THEN Min(PairsFrom(s, "]", "]", 3)) + 1 ELSE 0
    ELSE IF s # <<>> /\ s[1] \in {"'", "\""}
              /\ \E j \in 2..Len(s) : s[j] = s[1]
    THEN Min({ j \in 2..Len(s) : s[j] = s[1] })
    ELSE 0

\* length of the match of the informational-field pattern at the start of s
MetaLen(s) ==
    IF s # <<>> /\ s[1] = "_" /\ \E f \in MetaFields : StartsWith(Tail(s), f)
    THEN LET f  == CHOOSE f \in MetaFields : StartsWith(Tail(s), f)
             a  == Drop(s, 1 + Len(f))
             b  == Drop(a, Spaces(a))
             c  == Drop(b, 1)
             d  == Drop(c, Spaces(c))
             v  == MetaValueLen(d)
             n  == 1 + Len(f) + Spaces(a) + 1 + Spaces(c) + v
         IN  IF b # <<>> /\ b[1] = "=" /\ v > 0
             THEN IF n < Len(s) /\ s[n + 1] = "," THEN n + 1 ELSE n
             ELSE 0
    ELSE 0

RECURSIVE StripMeta(_)
StripMeta(s) ==
    IF s = <<>> THEN <<>>
    ELSE IF MetaLen(s) > 0
         THEN StripMeta(Drop(s, MetaLen(s)))
         ELSE <<s[1]>> \o StripMeta(Tail(s))

\* str.splitlines()
RECURSIVE SplitLines(_, _)
SplitLines(s, cur) ==
    IF s = <<>> THEN (IF cur = <<>> THEN <<>> ELSE <<cur>>)
    ELSE IF s[1] = "\n" THEN <<cur>> \o SplitLines(Tail(s), <<>>)
    ELSE SplitLines(Tail(s), Append(cur, s[1]))

\* re.sub(r'^ *--.*', '', line)
StripLineComment(line) ==
    IF StartsWith(LStrip(line, " "), <<"-", "-">>) THEN <<>> ELSE line

HasQuote(s) == Contains(s, "'") \/ Contains(s, "\"")

\* re.sub(r'--[^'"]*$', '', line)
StripEolComment(line) ==
    LET starts == { i \in PairsFrom(line, "-", "-", 1) :
                        ~HasQuote(Drop(line, i + 1)) }
    IN  IF starts # {} THEN SubSeq(line, 1, Min(starts) - 1) ELSE line

\* str.strip()
Strip(s) == RStrip(LStrip(s, " "), " ")

TwoCharTokens == { <<"=", "=">>, <<"<", "=">>, <<">", "=">>, <<"~", "=">>,
                   <<".", ".">> }
OneCharTokens == { <<c>> : c \in {"=", "<", ">", "+", "-", "*", "/", ",", "|",
                                  "&", "%", "(", ")"} }

\* re.sub(r' *(tokens) *', r'\1', s) for a set of tokens of length n
RECURSIVE Collapse(_, _, _)
Collapse(s, tokens, n) ==
    IF s = <<>> THEN <<>>
    ELSE LET rest == Drop(s, Spaces(s))
         IN  IF Len(rest) >= n /\ SubSeq(rest, 1, n) \in tokens
             THEN SubSeq(rest, 1, n)
                  \o Collapse(LStrip(Drop(rest, n), " "), tokens, n)
             ELSE <<s[1]>> \o Collapse(Tail(s), tokens, n)

\* re.search(r'^[^'"]+=[^=]+$', line)
IsSimpleAssignment(line) ==
    LET e == LastIndexOf(line, "=")
    IN  /\ e >= 2
        /\ e < Len(line)
        /\ ~HasQuote(SubSeq(line, 1, e - 1))

\* the body of the loop of get_stripped_source, lines 55-71
NormalizeLine(raw) ==
    LET line == Strip(StripEolComment(StripLineComment(raw)))
    IN  IF ~HasQuote(line)
        THEN Collapse(Collapse(line, TwoCharTokens, 2), OneCharTokens, 1)
        ELSE IF IsSimpleAssignment(line)
        THEN Collapse(line, {<<"=">>}, 1)
        ELSE line

(* get_stripped_source, line 45 *)
NzMultiline ==
    /\ nz.pc = "multiline"
    /\ nz' = [nz EXCEPT !.contents = StripMultiline(nz.contents),
                        !.pc = "meta"]
    /\ UNCHANGED bundlerVars
    /\ UNCHANGED vr

(* get_stripped_source, lines 47-53 *)
NzMeta ==
    /\ nz.pc = "meta"
    /\ \E c \in {StripMeta(nz.contents)} :
          nz' = [nz EXCEPT !.contents = c,
                           !.lines = SplitLines(c, <<>>),
                           !.n = 1,
                           !.pc = "lines"]
    /\ UNCHANGED bundlerVars
    /\ UNCHANGED vr

(* get_stripped_source, lines 53-73: one line of the file *)
NzLine ==
    /\ nz.pc = "lines"
    /\ nz.n <= Len(nz.lines)
    /\ \E line \in {NormalizeLine(nz.lines[nz.n])} :
          nz' = [nz EXCEPT
                   !.yielded = IF line # <<>>
                               THEN Append(@, [n |-> nz.n, line |-> line])
                               ELSE @,
                   !.n = nz.n + 1]
    /\ UNCHANGED bundlerVars
    /\ UNCHANGED vr

(* get_stripped_source: the generator is exhausted *)
NzEnd ==
    /\ nz.pc = "lines"
    /\ nz.n > Len(nz.lines)
    /\ nz' = [nz EXCEPT !.pc = "done"]
    /\ UNCHANGED bundlerVars
    /\ UNCHANGED vr

\* the file texts tried: an optional first line, then the line
\*   x = "<interior>"<rest>
\* whose string literal has the interior lit
Quote == <<"\"">>

Pieces == { <<"a">>, <<" ">>, <<"-", "-">>, <<"[", "[">>, <<"]", "]">>, <<"=">> }

\* bound on the number of pieces of the interior of the literal
MaxPieces == 4

RECURSIVE Interiors(_)
Interiors(k) ==
    IF k = 0 THEN {<<>>}
    ELSE Interiors(k - 1)
         \cup { i \o p : i \in Interiors(k - 1), p \in Pieces }

ExampleInterior == <<"a", " ", "-", "-", " ", "b">>

Heads == { <<>>,
           <<"_", "U", "R", "L", " ", "=", " ", "'", "u", "'", ",", "\n">>,
           <<" ", "-", "-", "c", "\n">> }

Rests == { <<>>,
           <<" ", "-", "-", "c">>,
           <<" ", ".", ".", " ", "y">>,
           <<"\n", "y", " ", "=", " ", "z", " ", "+", " ", "1">> }

NzInit ==
    /\ \E h \in Heads, lit \in Interiors(MaxPieces) \cup {ExampleInterior},
          r \in Rests :
          nz = [pc |-> "multiline",
                src |-> h \o <<"x", " ", "=", " ">> \o Quote \o lit \o Quote \o r,
                lit |-> lit,
                contents |-> h \o <<"x", " ", "=", " ">> \o Quote \o lit
                             \o Quote \o r,
                lines |-> <<>>,
                n |-> 0,
                yielded |-> <<>>]
    /\ fs = <<>>
    /\ args = <<>>
    /\ pc = "off"
    /\ aliases = <<>>
    /\ modules = <<>>
    /\ return_symbol = None
    /\ seen = {}
    /\ out = <<>>
    /\ stack = <<>>
    /\ call = NoCall
    /\ entry = 0
    /\ written = NotWritten
    /\ run = 1
    /\ prevWritten = NotWritten
    /\ opened = <<>>
    /\ vr = NoVr

NzNext == NzMultiline \/ NzMeta \/ NzLine \/ NzEnd

NzSpec == NzInit /\ [][NzNext]_vars

ContainsSub(s, sub) ==
    \E i \in 0..(Len(s) - Len(sub)) : SubSeq(s, i + 1, i + Len(sub)) = sub

\* C6: the Normalizer leaves the interior of every quoted string literal
\* unchanged: the literal of the source is in the normalized lines with the
\* same characters between its quotes; in particular x = "a -- b" keeps
\* a -- b.
C6_LiteralInteriorUnchanged ==
    nz.pc = "done" =>
        \E k \in 1..Len(nz.yielded) :
            ContainsSub(nz.yielded[k].line, Quote \o nz.lit \o Quote)

----------------------------------------------------------------------------
(* mkreapack.py: the next version of the package                           *)

DigitChars == <<"0", "1", "2", "3", "4", "5", "6", "7", "8", "9">>

DigitVal(c) == (CHOOSE i \in 1..10 : DigitChars[i] = c) - 1

\* int(s) for a string of decimal digits
RECURSIVE StrToInt(_)
StrToInt(s) ==
    IF Len(s) = 1 THEN DigitVal(s[1])
    ELSE 10 * StrToInt(SubSeq(s, 1, Len(s) - 1)) + DigitVal(s[Len(s)])

\* str(n) for n >= 0, as f'{n}' formats it
RECURSIVE IntToStr(_)
IntToStr(n) ==
    IF n < 10 THEN <<DigitChars[n + 1]>>
    ELSE IntToStr(n \div 10) \o <<DigitChars[(n % 10) + 1]>>

\* re.split(r'[.-]', v)
RECURSIVE SplitVer(_, _)
SplitVer(v, cur) ==
    IF v = <<>> THEN <<cur>>
    ELSE IF v[1] \in {".", "-"} THEN <<cur>> \o SplitVer(Tail(v), <<>>)
    ELSE SplitVer(Tail(v), Append(cur, v[1]))

parsever(v) ==
    LET fields == SplitVer(v, <<>>)
    IN  [i \in 1..Len(fields) |-> StrToInt(fields[i])]

\* a >= b in place of a > b
RECURSIVE ListGreater_OrEqual(_, _)
ListGreater_OrEqual(a, b) ==
    IF a = <<>> THEN b = <<>>
    ELSE IF b = <<>> THEN TRUE
    ELSE IF a[1] # b[1] THEN a[1] > b[1]
    ELSE ListGreater_OrEqual(Tail(a), Tail(b))

\* Python's a > b on lists of integers
RECURSIVE ListGreater(_, _)
ListGreater(a, b) ==
    IF a = <<>> THEN FALSE
    ELSE IF b = <<>> THEN TRUE
    ELSE IF a[1] # b[1] THEN a[1] > b[1]
    ELSE ListGreater(Tail(a), Tail(b))

\* v.split('.')[0]
RECURSIVE FirstField(_)
FirstField(v) ==
    IF v = <<>> \/ v[1] = "." THEN <<>> ELSE <<v[1]>> \o FirstField(Tail(v))

MajorKey(v) == StrToInt(FirstField(v))

\* sorted(versions, key=...)[-1]: the sort is stable, so the last element is
\* the last line among those with the greatest key
get_latest_from_manifest(versions) ==
    LET i == CHOOSE i \in 1..Len(versions) :
                /\ \A j \in 1..Len(versions) :
                      MajorKey(versions[j]) <= MajorKey(versions[i])
                /\ \A j \in (i+1)..Len(versions) :
                      MajorKey(versions[j]) < MajorKey(versions[i])
    IN  versions[i]

\* gen_reapack_version, lines 45-54
NextVersion(manifest, reapack) ==
    IF ListGreater(parsever(manifest), parsever(reapack)) THEN manifest
    ELSE LET parts == parsever(reapack)
         IN  IF Len(parts) = 3 THEN manifest \o <<"-", "1">>
             ELSE manifest \o <<"-">> \o IntToStr(parts[Len(parts)] + 1)

\* vr.lines is the MANIFEST file, vr.xml the registry document as
\* gen_reapack_version sees it: the name attributes of its <version>
\* elements, in document order
(* gen_reapack_version, line 38 *)
VerManifest ==
    /\ vr.pc = "manifest"
    /\ vr' = [vr EXCEPT !.manifest = get_latest_from_manifest(vr.lines),
                        !.pc = "search"]
    /\ UNCHANGED bundlerVars
    /\ UNCHANGED nz

(* gen_reapack_version, lines 39-43: re.search finds the first <version name= *)
VerSearch ==
    /\ vr.pc = "search"
    /\ IF vr.xml = <<>>
       THEN vr' = [vr EXCEPT !.result = vr.manifest, !.pc = "done"]
       ELSE vr' = [vr EXCEPT !.reapack = vr.xml[1], !.pc = "compare"]
    /\ UNCHANGED bundlerVars
    /\ UNCHANGED nz

(* gen_reapack_version, lines 45-54 *)
VerCompare ==
    /\ vr.pc = "compare"
    /\ vr' = [vr EXCEPT !.result = NextVersion(vr.manifest, vr.reapack),
                        !.pc = "done"]
    /\ UNCHANGED bundlerVars
    /\ UNCHANGED nz

\* bounds of the version numbers tried
MaxMajor == 2
MaxBuild == 10

Minors == {0, 3, 10}

\* f'{a}.{b}.{c}' and f'{a}.{b}.{c}-{k}'
FormatVer(parts) ==
    IntToStr(parts[1]) \o <<".">> \o IntToStr(parts[2]) \o <<".">>
    \o IntToStr(parts[3])
    \o (IF Len(parts) = 4 THEN <<"-">> \o IntToStr(parts[4]) ELSE <<>>)

ReleaseParts == { <<a, b, 0>> : a \in 1..MaxMajor, b \in Minors }

\* MANIFEST holds one release per major API version
ManifestParts ==
    { <<p>> : p \in ReleaseParts }
    \cup { <<pq[1], pq[2]>> :
              pq \in { x \in ReleaseParts \X ReleaseParts : x[1][1] # x[2][1] } }

RegistryParts ==
    ReleaseParts
    \cup { <<p[1], p[2], p[3], k>> :
              p \in ReleaseParts, k \in {1, MaxBuild - 1, MaxBuild} }

RegistryDocs ==
    {<<>>} \cup { <<r>> : r \in RegistryParts }
    \cup { <<r, <<1, 0, 0>> >> : r \in RegistryParts }

VerInit ==
    /\ \E m \in ManifestParts, x \in RegistryDocs :
          vr = [pc |-> "manifest",
                mparts |-> m,
                xparts |-> x,
                lines |-> [i \in 1..Len(m) |-> FormatVer(m[i])],
                xml |-> [i \in 1..Len(x) |-> FormatVer(x[i])],
                manifest |-> None,
                reapack |-> None,
                result |-> None]
    /\ fs = <<>>
    /\ args = <<>>
    /\ pc = "off"
    /\ aliases = <<>>
    /\ modules = <<>>
    /\ return_symbol = None
    /\ seen = {}
    /\ out = <<>>
    /\ stack = <<>>
    /\ call = NoCall
    /\ entry = 0
    /\ written = NotWritten
    /\ run = 1
    /\ prevWritten = NotWritten
    /\ opened = <<>>
    /\ nz = NoNz

VerNext == VerManifest \/ VerSearch \/ VerCompare

VerSpec == VerInit /\ [][VerNext]_vars

\* the greater of two versions as lists of integers
RECURSIVE ClaimGreater(_, _)
ClaimGreater(a, b) ==
    \/ (a # <<>> /\ b = <<>>)
    \/ (a # <<>> /\ b # <<>> /\ a[1] > b[1])
    \/ (a # <<>> /\ b # <<>> /\ a[1] = b[1] /\ ClaimGreater(Tail(a), Tail(b)))

ClaimLatest(m) ==
    CHOOSE p \in {m[i] : i \in 1..Len(m)} :
        \A i \in 1..Len(m) : m[i] = p \/ ClaimGreater(p, m[i])

ClaimNext(m, x) ==
    LET latest == ClaimLatest(m)
    IN  IF x = <<>> \/ ClaimGreater(latest, x[1]) THEN FormatVer(latest)
        ELSE IF Len(x[1]) = 3 THEN FormatVer(latest) \o <<"-", "1">>
        ELSE FormatVer(latest) \o <<"-">> \o IntToStr(x[1][4] + 1)

V230 == <<"2", ".", "3", ".", "0">>

\* C7: the next version is the manifest's latest version when the registry
\* has no version or the manifest's latest is greater than the registry's
\* latest name (as lists of integers); otherwise it is the manifest's latest
\* followed by -1 when the registry's latest has no build counter and by
\* -(k+1) when it has build counter k; 2.3.0 against 2.3.0 gives 2.3.0-1 and
\* against 2.3.0-1 gives 2.3.0-2.
C7_NextVersion ==
    vr.pc = "done" =>
        /\ vr.result = ClaimNext(vr.mparts, vr.xparts)
        /\ (vr.lines = <<V230>> /\ vr.xml # <<>> /\ vr.xml[1] = V230)
              => vr.result = V230 \o <<"-", "1">>
        /\ (vr.lines = <<V230>> /\ vr.xml # <<>> /\ vr.xml[1] = V230 \o <<"-", "1">>)
              => vr.result = V230 \o <<"-", "2">>

C7_Witness ==
    /\ vr.pc = "done"
    /\ vr.lines = <<V230>>
    /\ vr.xml # <<>>
    /\ vr.xml[1] = V230 \o <<"-", "1">>
    /\ vr.result = V230 \o <<"-", "2">>

----------------------------------------------------------------------------
(* Properties of the bundler                                               *)

\* the indices of the opening wrappers of symbol sym in output o
OpenIdx(o, sym) == { i \in 1..Len(o) : o[i].t = "open" /\ o[i].sym = sym }

\* the opening and closing wrappers of output o, in order
RECURSIVE Wrappers(_)
Wrappers(o) ==
    IF o = <<>> THEN <<>>
    ELSE IF o[1].t \in {"open", "close"}
         THEN <<[t |-> o[1].t, sym |-> o[1].sym]>> \o Wrappers(Tail(o))
         ELSE Wrappers(Tail(o))

Open(sym) == [t |-> "open", sym |-> sym]
Close == [t |-> "close", sym |-> <<>>]

SymA == ModPrefix \o <<"a">>
SymB == ModPrefix \o <<"b">>
SymC == ModPrefix \o <<"c">>

Finished == pc = "exit1" \/ (pc = "done" /\ run = 2)

\* C1: each physical source file is inlined at most once in a run, however
\* many names, aliases and require statements reach it: no two of the files
\* whose lines were wrapped into a block are the same file on disk.
C1_EachFileInlinedOnce ==
    \A i, j \in 1..Len(opened) :
        Canon(opened[i]) = Canon(opened[j]) => i = j

\* the case of C2: the only entry is a.lua, whose two lines require b and
\* then c; b.lua and c.lua require nothing
C2_Case ==
    /\ args = <<Pa>>
    /\ Pc \in DOMAIN fs
    /\ Len(fs[Pa]) = 2
    /\ fs[Pa][1].kind = "static" /\ fs[Pa][1].mod = Mb
    /\ fs[Pa][2].kind = "static" /\ fs[Pa][2].mod = Mc
    /\ \A f \in {Pb, Pc} : \A k \in 1..Len(fs[f]) : fs[f][k].kind = "plain"

\* C2 (as stated): for an entry file A requiring B and then C, the output is
\* the block of B, then the block of C, then the block of A, one after another,
\* and a second run on the same inputs writes the same output.
C2_BlocksOneAfterAnother ==
    (C2_Case /\ pc = "done") =>
        /\ Wrappers(written) = <<Open(SymB), Close, Open(SymC), Close,
                                 Open(SymA), Close>>
        /\ run = 2 => written = prevWritten

\* C2 (amended): for an entry file A requiring B and then C, the output holds
\* one block per module; the block of A opens first and the blocks of B and
\* then C lie inside it, so the blocks close in the order B, C, A; a second
\* run on the same inputs writes the same output.
C2_BlocksNestedInOrder ==
    (C2_Case /\ pc = "done") =>
        /\ Wrappers(written) = <<Open(SymA), Open(SymB), Close, Open(SymC),
                                 Close, Close>>
        /\ run = 2 => written = prevWritten

C2_Witness ==
    /\ C2_Case
    /\ pc = "done"
    /\ run = 2
    /\ Len(written) > 6

\* C3: no two inlined modules are assigned the same symbol: the opening
\* wrappers of the output carry pairwise different symbols.
C3_SymbolsUnique ==
    \A i, j \in 1..Len(out) :
        (out[i].t = "open" /\ out[j].t = "open" /\ out[i].sym = out[j].sym)
            => i = j

\* the static import line the innermost frame is at, when there is one
AtStaticLine ==
    /\ pc = "line"
    /\ Top.n <= Len(LinesOf(Top.filename))
    /\ LinesOf(Top.filename)[Top.n].kind = "static"

CurLine == LinesOf(Top.filename)[Top.n]

\* the candidate bases of C4/C8 for module m: the direct mapping, then what
\* each matching alias gives, in the order of registration
RECURSIVE ClaimAliasCandidates(_, _)
ClaimAliasCandidates(al, m) ==
    IF al = <<>> THEN <<>>
    ELSE LET a == al[1]
             matches == m = a.symbol \/ StartsWith(m, a.symbol \o <<".">>)
             isfile == Canon(a.path) \in DOMAIN fs
             dir == IF isfile THEN Dirname(a.path) ELSE a.path
             rest == ReplaceAll(LStrip(Drop(m, Len(a.symbol)), "."),
                                <<".">>, <<"/">>)
         IN  (IF matches
              THEN <<Join(dir, rest)>>
                   \o (IF isfile THEN <<SplitextRoot(a.path)>> ELSE <<>>)
              ELSE <<>>)
             \o ClaimAliasCandidates(Tail(al), m)

ClaimCandidates(m) ==
    <<ReplaceAll(m, <<".">>, <<"/">>)>> \o ClaimAliasCandidates(aliases, m)

\* candidate c with the .lua suffix (s = 1) or the /init.lua suffix (s = 2)
ClaimPath(m, c, s) ==
    ClaimCandidates(m)[c] \o (IF s = 1 THEN DotLua ELSE SlashInitLua)

ClaimPathSlots(m) == (1..Len(ClaimCandidates(m))) \X {1, 2}

Before(x, y) == x[1] < y[1] \/ (x[1] = y[1] /\ x[2] < y[2])

NoCandidateExists(m) ==
    \A x \in ClaimPathSlots(m) : ~Exists(fs, ClaimPath(m, x[1], x[2]))

\* C4: a static require of a module without symbol none of whose candidate
\* paths exists ends the run at that point with exit status 1, and nothing is
\* written: the output is written only after every entry has been processed.
C4_FatalOnMissing ==
    [][ /\ (AtStaticLine /\ ModulesGet(modules, CurLine.mod) = None
              /\ NoCandidateExists(CurLine.mod))
            => (pc' = "exit1" /\ written' = NotWritten)
        /\ (pc' = "exit1")
            => (/\ AtStaticLine
                /\ ModulesGet(modules, CurLine.mod) = None
                /\ NoCandidateExists(CurLine.mod)
                /\ written' = NotWritten)
        /\ (written' # written /\ written' # NotWritten)
            => (pc = "main_loop" /\ entry > Len(aliases))
      ]_vars

C4_Witness ==
    /\ pc = "exit1"
    /\ stack # <<>>
    /\ Len(out) > 2
    /\ written = NotWritten

\* C8: the file handed to the inlining of a required module without symbol
\* is the first existing path, going through the candidates in order and
\* through the suffixes .lua and then /init.lua for each candidate.
C8_FirstExistingCandidate ==
    [][ (AtStaticLine /\ ModulesGet(modules, CurLine.mod) = None)
          => \/ /\ NoCandidateExists(CurLine.mod)
                /\ pc' # "enter"
             \/ \E x \in ClaimPathSlots(CurLine.mod) :
                  /\ Exists(fs, ClaimPath(CurLine.mod, x[1], x[2]))
                  /\ \A y \in ClaimPathSlots(CurLine.mod) :
                        Before(y, x) => ~Exists(fs, ClaimPath(CurLine.mod, y[1], y[2]))
                  /\ pc' = "enter"
                  /\ call'.filename = ClaimPath(CurLine.mod, x[1], x[2])
      ]_vars

\* a direct candidate with both suffixes on disk, and an alias candidate
\* taken after the direct candidate was missing
C8_Witness ==
    /\ pc = "enter"
    /\ stack # <<>>
    /\ \/ (call.filename = Pd /\ PdInit \in DOMAIN fs)
       \/ (call.filename = <<"d", "/">> \o SlashInitLua)

\* C10: in the output of a completed run, every symbol a rewritten import
\* assignment refers to is the symbol of a wrapped block of the output.
C10_NoDanglingSymbol ==
    pc = "done" =>
        \A i \in 1..Len(written) :
            written[i].t = "assign" => OpenIdx(written, written[i].sym) # {}


\* a step that completes a static import line of the innermost frame
StaticLineDone ==
    /\ pc \in {"line", "after_call"}
    /\ stack # <<>>
    /\ Top.n <= Len(LinesOf(Top.filename))
    /\ CurLine.kind = "static"
    /\ Len(stack') = Len(stack)
    /\ stack'[Len(stack')].n = Top.n + 1

\* the symbol process holds for the module of that line
LineSymbol ==
    IF pc = "after_call" THEN Top.sub ELSE ModulesGet(modules, CurLine.mod)

\* C5: a static import line that assigns the result is emitted with the
\* require call replaced by the symbol of the module, a bare one is not
\* emitted, and in both cases the block of that module is in the output
\* exactly once.
C5_StaticImportRewriting ==
    [][ StaticLineDone =>
          /\ CurLine.assigned =>
                out' \in { out \o <<Frag("assign", LineSymbol, CurLine.id)>>,
                           out \o <<Frag("nl", <<>>, 0),
                                    Frag("assign", LineSymbol, CurLine.id)>> }
          /\ ~CurLine.assigned => out' = out
          /\ Cardinality(OpenIdx(out', LineSymbol)) = 1
      ]_vars

NoPathEnteredTwice ==
    \A i, j \in 1..Len(opened) : opened[i] = opened[j] => i = j

\* C9: every bundling run terminates, also on cyclic requires: no file path
\* is entered twice, and the run ends with the output written or with the
\* fatal exit.
C9_Terminates == []NoPathEnteredTwice /\ <>Finished

\* a completed run over a file that requires itself under a name that has no
\* symbol, so that the recursive call comes back on the seen check
C9_Witness ==
    /\ pc = "done"
    /\ args[1] = ArgRB
    /\ fs[Pb] = << Line("static", TRUE, Mb, 5, FALSE) >>
    /\ Pb \in seen

====
